---- MODULE Spec2Model ----
(***************************************************************************)
(* A model of the `rangeset` crate (src/src/lib.rs): `Range`, an inclusive *)
(* range of usize, and `RangeSet<N>`, a fixed-capacity sorted array of     *)
(* ranges with merge-on-insert and trim/split-on-remove.                   *)
(*                                                                         *)
(* `ranges` holds the slots `self.ranges[..self.in_use]` (what `entries()` *)
(* returns).  The slots at and beyond `in_use` are never read by any       *)
(* routine before being overwritten, so they are not part of the state.    *)
(* Indices are 0-based as in the source; slot `i` is `ranges[i + 1]`.      *)
(* usize is scaled down to 0..UsizeMax; checked and saturating arithmetic  *)
(* is modelled against that maximum.                                       *)
(***************************************************************************)
EXTENDS Integers, Sequences, FiniteSets, TLC

\* Bounds of the model
UsizeMax == 4
MaxN == 3

Usize == 0..UsizeMax

\* Option<T>: None is the empty sequence, Some(x) the one-element sequence
None == <<>>
Some(x) == <<x>>

\* Result<T, Error>
Ok(v) == [ok |-> TRUE, err |-> "", val |-> v]
Err(e) == [ok |-> FALSE, err |-> e, val |-> FALSE]

\* usize::checked_add
checked_add(a, b) == IF a + b > UsizeMax THEN None ELSE Some(a + b)

\* usize::saturating_add
saturating_add(a, b) == IF a + b > UsizeMax THEN UsizeMax ELSE a + b

\* usize::saturating_sub
saturating_sub(a, b) == IF a < b THEN 0 ELSE a - b

min(a, b) == IF a <= b THEN a ELSE b
max(a, b) == IF a >= b THEN a ELSE b

\* Range::new_unchecked
new_unchecked(start, end) == [start |-> start, end |-> end]

\* Range::new
new(start, end) ==
    IF start <= end THEN [ok |-> TRUE, err |-> "", val |-> new_unchecked(start, end)]
    ELSE [ok |-> FALSE, err |-> "InvalidRange", val |-> new_unchecked(start, end)]

\* The ranges a caller can construct: Range::new is the only public constructor
ValidRanges == {r \in [start : Usize, end : Usize] : new(r.start, r.end).ok}

\* Range::contains with both comparisons strict
contains_strict(self, other) == self.start < other.start /\ self.end > other.end

\* Range::contains
contains(self, other) == self.start <= other.start /\ self.end >= other.end

\* Range::overlaps with both comparisons strict
overlaps_strict(self, other) ==
    IF self.start < other.end /\ other.start < self.end
    THEN Some(new_unchecked(max(self.start, other.start), min(self.end, other.end)))
    ELSE None

\* Range::overlaps
overlaps(self, other) ==
    IF self.start <= other.end /\ other.start <= self.end
    THEN Some(new_unchecked(max(self.start, other.start), min(self.end, other.end)))
    ELSE None

\* RangeSet::new
RangeSetNew(n) == [ranges |-> <<>>, in_use |-> 0, N |-> n]

\* RangeSet::entries
entries(self) == SubSeq(self.ranges, 1, self.in_use)

\* RangeSet::is_empty
is_empty(self) == self.in_use = 0

\* slice::swap on slots i and j
swap(arr, i, j) == [arr EXCEPT ![i + 1] = arr[j + 1], ![j + 1] = arr[i + 1]]

\* slice::copy_within(lo..hi, dest); the result covers the slots written
copy_within(arr, lo, hi, dest) ==
    LET n == IF Len(arr) >= dest + (hi - lo) THEN Len(arr) ELSE dest + (hi - lo)
    IN [k \in 1..n |-> IF k - 1 >= dest /\ k - 1 < dest + (hi - lo)
                       THEN arr[(k - 1) - dest + lo + 1]
                       ELSE arr[k]]

\* self.ranges[i] = v, where slot i may be the first slot past the used ones
store(arr, i, v) == IF i + 1 > Len(arr) THEN Append(arr, v) ELSE [arr EXCEPT ![i + 1] = v]

\* The loop of RangeSet::delete: `for i in idx..self.in_use - 1 { swap(i, i + 1) }`
RECURSIVE delete_loop(_, _, _)
delete_loop(arr, i, last) ==
    IF i >= last THEN arr ELSE delete_loop(swap(arr, i, i + 1), i + 1, last)

\* delete whose bounds check is `idx > self.in_use`
delete_gt(self, idx) ==
    IF idx > self.in_use
    THEN [self |-> self, res |-> Err("IndexOutOfBounds")]
    ELSE LET arr == delete_loop(self.ranges, idx, self.in_use - 1)
         IN [self |-> [self EXCEPT !.ranges = SubSeq(arr, 1, self.in_use - 1),
                                   !.in_use = self.in_use - 1],
             res |-> Ok(TRUE)]

\* RangeSet::delete
delete(self, idx) ==
    IF idx >= self.in_use
    THEN [self |-> self, res |-> Err("IndexOutOfBounds")]
    ELSE LET arr == delete_loop(self.ranges, idx, self.in_use - 1)
         IN [self |-> [self EXCEPT !.ranges = SubSeq(arr, 1, self.in_use - 1),
                                   !.in_use = self.in_use - 1],
             res |-> Ok(TRUE)]

\* insert's iteration that breaks on `range.end <= entry.start`
insert_step_break_le(self, range, idx) ==
    LET entry == self.ranges[idx + 1]
        eend == checked_add(entry.end, 1)
    IN IF eend = None
       THEN [kind |-> "err", self |-> self, range |-> range, idx |-> idx,
             err |-> "RangeSetOverflow", at |-> "eend"]
       ELSE IF range.start > eend[1]
       THEN [kind |-> "next", self |-> self, range |-> range, idx |-> idx + 1,
             err |-> "", at |-> ""]
       ELSE IF range.end <= entry.start
       THEN [kind |-> "break", self |-> self, range |-> range, idx |-> idx,
             err |-> "", at |-> ""]
       ELSE
         LET merged == new_unchecked(min(entry.start, range.start),
                                     max(entry.end, range.end))
             d == delete(self, idx)
         IN IF ~d.res.ok
            THEN [kind |-> "err", self |-> d.self, range |-> merged, idx |-> idx,
                  err |-> d.res.err, at |-> "delete"]
            ELSE [kind |-> "merge", self |-> d.self, range |-> merged, idx |-> idx,
                  err |-> "", at |-> ""]

\* insert's iteration that merges without widening range.end to the entry's end
insert_step_keep_end(self, range, idx) ==
    LET entry == self.ranges[idx + 1]
        eend == checked_add(entry.end, 1)
    IN IF eend = None
       THEN [kind |-> "err", self |-> self, range |-> range, idx |-> idx,
             err |-> "RangeSetOverflow", at |-> "eend"]
       ELSE IF range.start > eend[1]
       THEN [kind |-> "next", self |-> self, range |-> range, idx |-> idx + 1,
             err |-> "", at |-> ""]
       ELSE IF range.end < entry.start
       THEN [kind |-> "break", self |-> self, range |-> range, idx |-> idx,
             err |-> "", at |-> ""]
       ELSE
         LET merged == new_unchecked(min(entry.start, range.start), range.end)
             d == delete(self, idx)
         IN IF ~d.res.ok
            THEN [kind |-> "err", self |-> d.self, range |-> merged, idx |-> idx,
                  err |-> d.res.err, at |-> "delete"]
            ELSE [kind |-> "merge", self |-> d.self, range |-> merged, idx |-> idx,
                  err |-> "", at |-> ""]

\* One iteration of the `while idx < self.in_use` loop of RangeSet::insert.
\* kind is "next" (idx advanced), "break", "merge" (entry absorbed and deleted)
\* or "err"; `at` names the place a failure came from.
insert_step(self, range, idx) ==
    LET entry == self.ranges[idx + 1]
        eend == checked_add(entry.end, 1)
    IN IF eend = None
       THEN [kind |-> "err", self |-> self, range |-> range, idx |-> idx,
             err |-> "RangeSetOverflow", at |-> "eend"]
       ELSE IF range.start > eend[1]
       THEN [kind |-> "next", self |-> self, range |-> range, idx |-> idx + 1,
             err |-> "", at |-> ""]
       ELSE IF range.end < entry.start
       THEN [kind |-> "break", self |-> self, range |-> range, idx |-> idx,
             err |-> "", at |-> ""]
       ELSE
         LET merged == new_unchecked(min(entry.start, range.start),
                                     max(entry.end, range.end))
             d == delete(self, idx)
         IN IF ~d.res.ok
            THEN [kind |-> "err", self |-> d.self, range |-> merged, idx |-> idx,
                  err |-> d.res.err, at |-> "delete"]
            ELSE [kind |-> "merge", self |-> d.self, range |-> merged, idx |-> idx,
                  err |-> "", at |-> ""]

\* The scan loop of RangeSet::insert; iters counts the executions of its body
RECURSIVE insert_loop(_, _, _, _)
insert_loop(self, range, idx, iters) ==
    IF ~(idx < self.in_use)
    THEN [self |-> self, range |-> range, idx |-> idx, err |-> "", at |-> "", iters |-> iters]
    ELSE
      LET st == insert_step(self, range, idx)
      IN IF st.kind \in {"err", "break"}
         THEN [self |-> st.self, range |-> st.range, idx |-> st.idx,
               err |-> st.err, at |-> st.at, iters |-> iters + 1]
         ELSE insert_loop(st.self, st.range, st.idx, iters + 1)

\* insert whose capacity check uses the count from before the scan
insert_stale_count(self, range) ==
    LET l == insert_loop(self, range, 0, 0)
        s == l.self
    IN IF l.err # ""
       THEN [self |-> s, res |-> Err(l.err), at |-> l.at, iters |-> l.iters]
       ELSE IF self.in_use >= s.N
       THEN [self |-> s, res |-> Err("RangeSetOverflow"), at |-> "capacity", iters |-> l.iters]
       ELSE
         LET shifted == IF l.idx < s.in_use
                        THEN copy_within(s.ranges, l.idx, s.in_use, l.idx + 1)
                        ELSE s.ranges
         IN [self |-> [s EXCEPT !.ranges = store(shifted, l.idx, l.range),
                                !.in_use = s.in_use + 1],
             res |-> Ok(TRUE), at |-> "", iters |-> l.iters]

\* RangeSet::insert
insert(self, range) ==
    LET l == insert_loop(self, range, 0, 0)
        s == l.self
    IN IF l.err # ""
       THEN [self |-> s, res |-> Err(l.err), at |-> l.at, iters |-> l.iters]
       ELSE IF s.in_use >= s.N
       THEN [self |-> s, res |-> Err("RangeSetOverflow"), at |-> "capacity", iters |-> l.iters]
       ELSE
         LET shifted == IF l.idx < s.in_use
                        THEN copy_within(s.ranges, l.idx, s.in_use, l.idx + 1)
                        ELSE s.ranges
         IN [self |-> [s EXCEPT !.ranges = store(shifted, l.idx, l.range),
                                !.in_use = s.in_use + 1],
             res |-> Ok(TRUE), at |-> "", iters |-> l.iters]

\* split_entry whose capacity check is `self.in_use > self.ranges.len()`
split_entry_gt_cap(self, idx, range) ==
    IF idx >= self.in_use
    THEN [self |-> self, res |-> Err("IndexOutOfBounds")]
    ELSE IF self.in_use > self.N
    THEN [self |-> self, res |-> Err("RangeSetOverflow")]
    ELSE
      LET entry == self.ranges[idx + 1]
      IN IF ~contains(entry, range)
         THEN [self |-> self, res |-> Ok(FALSE)]
         ELSE
           LET first == IF range.start > entry.start
                        THEN [self.ranges EXCEPT ![idx + 1].end = saturating_sub(range.start, 1)]
                        ELSE [self.ranges EXCEPT ![idx + 1].end = entry.start]
               shifted == IF idx + 1 < self.in_use
                          THEN copy_within(first, idx + 1, self.in_use, idx + 2)
                          ELSE first
               second == new(saturating_add(range.end, 1), entry.end)
           IN IF ~second.ok
              THEN [self |-> [self EXCEPT !.ranges = SubSeq(shifted, 1, self.in_use)],
                    res |-> Err(second.err)]
              ELSE [self |-> [self EXCEPT !.ranges = store(shifted, idx + 1, second.val),
                                          !.in_use = self.in_use + 1],
                    res |-> Ok(TRUE)]

\* split_entry whose first half ends at range.start instead of range.start - 1
split_entry_no_dec(self, idx, range) ==
    IF idx >= self.in_use
    THEN [self |-> self, res |-> Err("IndexOutOfBounds")]
    ELSE IF self.in_use >= self.N
    THEN [self |-> self, res |-> Err("RangeSetOverflow")]
    ELSE
      LET entry == self.ranges[idx + 1]
      IN IF ~contains(entry, range)
         THEN [self |-> self, res |-> Ok(FALSE)]
         ELSE
           LET first == IF range.start > entry.start
                        THEN [self.ranges EXCEPT ![idx + 1].end = range.start]
                        ELSE [self.ranges EXCEPT ![idx + 1].end = entry.start]
               shifted == IF idx + 1 < self.in_use
                          THEN copy_within(first, idx + 1, self.in_use, idx + 2)
                          ELSE first
               second == new(saturating_add(range.end, 1), entry.end)
           IN IF ~second.ok
              THEN [self |-> [self EXCEPT !.ranges = SubSeq(shifted, 1, self.in_use)],
                    res |-> Err(second.err)]
              ELSE [self |-> [self EXCEPT !.ranges = store(shifted, idx + 1, second.val),
                                          !.in_use = self.in_use + 1],
                    res |-> Ok(TRUE)]

\* split_entry whose second half starts at range.end instead of range.end + 1
split_entry_no_inc(self, idx, range) ==
    IF idx >= self.in_use
    THEN [self |-> self, res |-> Err("IndexOutOfBounds")]
    ELSE IF self.in_use >= self.N
    THEN [self |-> self, res |-> Err("RangeSetOverflow")]
    ELSE
      LET entry == self.ranges[idx + 1]
      IN IF ~contains(entry, range)
         THEN [self |-> self, res |-> Ok(FALSE)]
         ELSE
           LET first == IF range.start > entry.start
                        THEN [self.ranges EXCEPT ![idx + 1].end = saturating_sub(range.start, 1)]
                        ELSE [self.ranges EXCEPT ![idx + 1].end = entry.start]
               shifted == IF idx + 1 < self.in_use
                          THEN copy_within(first, idx + 1, self.in_use, idx + 2)
                          ELSE first
               second == new(range.end, entry.end)
           IN IF ~second.ok
              THEN [self |-> [self EXCEPT !.ranges = SubSeq(shifted, 1, self.in_use)],
                    res |-> Err(second.err)]
              ELSE [self |-> [self EXCEPT !.ranges = store(shifted, idx + 1, second.val),
                                          !.in_use = self.in_use + 1],
                    res |-> Ok(TRUE)]

\* RangeSet::split_entry
split_entry(self, idx, range) ==
    IF idx >= self.in_use
    THEN [self |-> self, res |-> Err("IndexOutOfBounds")]
    ELSE IF self.in_use >= self.N
    THEN [self |-> self, res |-> Err("RangeSetOverflow")]
    ELSE
      LET entry == self.ranges[idx + 1]
      IN IF ~contains(entry, range)
         THEN [self |-> self, res |-> Ok(FALSE)]
         ELSE
           LET first == IF range.start > entry.start
                        THEN [self.ranges EXCEPT ![idx + 1].end = saturating_sub(range.start, 1)]
                        ELSE [self.ranges EXCEPT ![idx + 1].end = entry.start]
               shifted == IF idx + 1 < self.in_use
                          THEN copy_within(first, idx + 1, self.in_use, idx + 2)
                          ELSE first
               second == new(saturating_add(range.end, 1), entry.end)
           IN IF ~second.ok
              THEN [self |-> [self EXCEPT !.ranges = SubSeq(shifted, 1, self.in_use)],
                    res |-> Err(second.err)]
              ELSE [self |-> [self EXCEPT !.ranges = store(shifted, idx + 1, second.val),
                                          !.in_use = self.in_use + 1],
                    res |-> Ok(TRUE)]

\* remove's iteration without the `range.end >= entry.end` branch
remove_step_no_end_trim(self, range, idx, any_removed) ==
    LET entry == self.ranges[idx + 1]
    IN IF overlaps(entry, range) = None
       THEN [self |-> self, idx |-> idx + 1, any_removed |-> any_removed, err |-> ""]
       ELSE IF contains(range, entry)
       THEN LET d == delete(self, idx)
            IN [self |-> d.self, idx |-> idx, any_removed |-> TRUE, err |-> d.res.err]
       ELSE IF range.start <= entry.start
       THEN [self |-> [self EXCEPT !.ranges[idx + 1].start = saturating_add(range.end, 1)],
             idx |-> idx + 1, any_removed |-> TRUE, err |-> ""]
       ELSE LET sp == split_entry(self, idx, range)
            IN [self |-> sp.self,
                idx |-> idx + (IF sp.res.ok /\ sp.res.val THEN 1 ELSE 0) + 1,
                any_removed |-> TRUE, err |-> sp.res.err]

\* remove's iteration that does not skip the second half after a split
remove_step_no_skip(self, range, idx, any_removed) ==
    LET entry == self.ranges[idx + 1]
    IN IF overlaps(entry, range) = None
       THEN [self |-> self, idx |-> idx + 1, any_removed |-> any_removed, err |-> ""]
       ELSE IF contains(range, entry)
       THEN LET d == delete(self, idx)
            IN [self |-> d.self, idx |-> idx, any_removed |-> TRUE, err |-> d.res.err]
       ELSE IF range.start <= entry.start
       THEN [self |-> [self EXCEPT !.ranges[idx + 1].start = saturating_add(range.end, 1)],
             idx |-> idx + 1, any_removed |-> TRUE, err |-> ""]
       ELSE IF range.end >= entry.end
       THEN [self |-> [self EXCEPT !.ranges[idx + 1].end = saturating_sub(range.start, 1)],
             idx |-> idx + 1, any_removed |-> TRUE, err |-> ""]
       ELSE LET sp == split_entry(self, idx, range)
            IN [self |-> sp.self,
                idx |-> idx + 1,
                any_removed |-> TRUE, err |-> sp.res.err]

\* One iteration of the `while idx < self.in_use` loop of RangeSet::remove
remove_step(self, range, idx, any_removed) ==
    LET entry == self.ranges[idx + 1]
    IN IF overlaps(entry, range) = None
       THEN [self |-> self, idx |-> idx + 1, any_removed |-> any_removed, err |-> ""]
       ELSE IF contains(range, entry)
       THEN LET d == delete(self, idx)
            IN [self |-> d.self, idx |-> idx, any_removed |-> TRUE, err |-> d.res.err]
       ELSE IF range.start <= entry.start
       THEN [self |-> [self EXCEPT !.ranges[idx + 1].start = saturating_add(range.end, 1)],
             idx |-> idx + 1, any_removed |-> TRUE, err |-> ""]
       ELSE IF range.end >= entry.end
       THEN [self |-> [self EXCEPT !.ranges[idx + 1].end = saturating_sub(range.start, 1)],
             idx |-> idx + 1, any_removed |-> TRUE, err |-> ""]
       ELSE LET sp == split_entry(self, idx, range)
            IN [self |-> sp.self,
                idx |-> idx + (IF sp.res.ok /\ sp.res.val THEN 1 ELSE 0) + 1,
                any_removed |-> TRUE, err |-> sp.res.err]

\* The scan loop of RangeSet::remove; iters counts the executions of its body
RECURSIVE remove_loop(_, _, _, _, _)
remove_loop(self, range, idx, any_removed, iters) ==
    IF ~(idx < self.in_use)
    THEN [self |-> self, res |-> Ok(any_removed), iters |-> iters]
    ELSE
      LET st == remove_step(self, range, idx, any_removed)
      IN IF st.err # ""
         THEN [self |-> st.self, res |-> Err(st.err), iters |-> iters + 1]
         ELSE remove_loop(st.self, range, st.idx, st.any_removed, iters + 1)

\* RangeSet::remove
remove(self, range) == remove_loop(self, range, 0, FALSE, 0)

\* The closure of RangeSet::len: `Some(acc + (x.end - x.start).checked_add(1)?)`.
\* `acc + size` is an unchecked addition: `wrapped` records that it exceeded
\* usize, where a build with overflow checks panics and a build without them
\* continues with the wrapped sum.
len_step(acc, x) ==
    LET size == checked_add(x.end - x.start, 1)
    IN IF size = None
       THEN [val |-> None, wrapped |-> FALSE]
       ELSE [val |-> Some((acc + size[1]) % (UsizeMax + 1)),
             wrapped |-> acc + size[1] > UsizeMax]

\* Iterator::try_fold over entries() with that closure
RECURSIVE len_fold(_, _, _, _)
len_fold(es, i, acc, wrapped) ==
    IF i > Len(es)
    THEN [val |-> Some(acc), wrapped |-> wrapped]
    ELSE LET st == len_step(acc, es[i])
         IN IF st.val = None
            THEN [val |-> None, wrapped |-> wrapped]
            ELSE len_fold(es, i + 1, st.val[1], wrapped \/ st.wrapped)

\* RangeSet::len: the outcomes a call can have
len(self) ==
    LET f == len_fold(entries(self), 1, 0, FALSE)
    IN IF f.wrapped
       THEN {[panic |-> TRUE, val |-> None], [panic |-> FALSE, val |-> f.val]}
       ELSE {[panic |-> FALSE, val |-> f.val]}

VARIABLES
    N,        \* the capacity parameter of RangeSet<N>
    ranges,   \* self.ranges[..self.in_use]
    in_use,   \* self.in_use
    op,       \* the last call made on the set
    arg,      \* its range argument
    res,      \* what it returned
    at,       \* for a failed insert, the place the error came from
    pre,      \* entries() before that call
    index,    \* the idx argument of a delete or split_entry call
    other,    \* the second range of a Range::overlaps call
    iters     \* how often the call ran the body of its scan loop

vars == <<N, ranges, in_use, op, arg, res, at, pre, index, other, iters>>

Self == [ranges |-> ranges, in_use |-> in_use, N |-> N]

Init ==
    /\ N \in 0..MaxN
    /\ ranges = RangeSetNew(N).ranges
    /\ in_use = RangeSetNew(N).in_use
    /\ op = "new"
    /\ arg = new_unchecked(0, 0)
    /\ res = Ok(TRUE)
    /\ at = ""
    /\ pre = <<>>
    /\ index = 0
    /\ other = new_unchecked(0, 0)
    /\ iters = 0

\* A call of insert(range)
Insert(range) ==
    LET out == insert(Self, range)
    IN /\ ranges' = out.self.ranges
       /\ in_use' = out.self.in_use
       /\ op' = "insert"
       /\ arg' = range
       /\ res' = out.res
       /\ at' = out.at
       /\ pre' = entries(Self)
       /\ iters' = out.iters
       /\ UNCHANGED <<N, index, other>>

\* A call of remove(range)
Remove(range) ==
    LET out == remove(Self, range)
    IN /\ ranges' = out.self.ranges
       /\ in_use' = out.self.in_use
       /\ op' = "remove"
       /\ arg' = range
       /\ res' = out.res
       /\ at' = ""
       /\ pre' = entries(Self)
       /\ iters' = out.iters
       /\ UNCHANGED <<N, index, other>>

\* A call of len()
LenCall ==
    /\ \E o \in len(Self) :
          res' = [ok |-> ~o.panic, err |-> IF o.panic THEN "panic" ELSE "", val |-> o.val]
    /\ op' = "len"
    /\ arg' = new_unchecked(0, 0)
    /\ at' = ""
    /\ pre' = entries(Self)
    /\ iters' = 0
    /\ UNCHANGED <<N, ranges, in_use, index, other>>

Next ==
    \/ \E range \in ValidRanges : Insert(range)
    \/ \E range \in ValidRanges : Remove(range)
    \/ LenCall

Spec == Init /\ [][Next]_vars

\* A direct call of the private delete(idx), as the crate's tests make
Delete(idx) ==
    LET out == delete(Self, idx)
    IN /\ ranges' = out.self.ranges
       /\ in_use' = out.self.in_use
       /\ op' = "delete"
       /\ index' = idx
       /\ res' = out.res
       /\ at' = ""
       /\ pre' = entries(Self)
       /\ iters' = 0
       /\ UNCHANGED <<N, arg, other>>

\* A direct call of the private split_entry(idx, range), as the crate's tests make
SplitEntry(idx, range) ==
    LET out == split_entry(Self, idx, range)
    IN /\ ranges' = out.self.ranges
       /\ in_use' = out.self.in_use
       /\ op' = "split_entry"
       /\ index' = idx
       /\ arg' = range
       /\ res' = out.res
       /\ at' = ""
       /\ pre' = entries(Self)
       /\ iters' = 0
       /\ UNCHANGED <<N, other>>

\* The set has been built by insert calls only, the way the crate's tests
\* build a set before they call a private helper on it
Built == op \in {"new", "insert"}

\* insert calls that build a set, then one direct call of a private helper
NextHelpers ==
    \/ \E range \in ValidRanges : Built /\ Insert(range)
    \/ \E idx \in 0..MaxN : Built /\ Delete(idx)
    \/ \E idx \in 0..MaxN, range \in ValidRanges : Built /\ SplitEntry(idx, range)

SpecHelpers == Init /\ [][NextHelpers]_vars

\* A call of a.overlaps(&b) on two ranges
OverlapsCall(a, b) ==
    /\ op' = "overlaps"
    /\ arg' = a
    /\ other' = b
    /\ res' = Ok(overlaps(a, b))
    /\ UNCHANGED <<N, ranges, in_use, at, pre, index, iters>>

NextRange == \E a \in ValidRanges, b \in ValidRanges : OverlapsCall(a, b)

SpecRange == Init /\ [][NextRange]_vars

\* Only insert is called
NextInsert == \E range \in ValidRanges : Insert(range)

SpecInsert == Init /\ [][NextInsert]_vars

(***************************************************************************)
(* Vocabulary of the properties                                            *)
(***************************************************************************)

\* The integer points of a range, and those covered by a sequence of entries
PointsOf(r) == r.start..r.end
Points(es) == UNION {PointsOf(es[i]) : i \in 1..Len(es)}
Covered(es) == Cardinality(Points(es))

\* r lies inside e; a and b share a point
Within(r, e) == e.start <= r.start /\ r.end <= e.end
SharePoint(a, b) == PointsOf(a) \cap PointsOf(b) # {}
StrictlyInside(r, e) == e.start < r.start /\ r.end < e.end

\* Structural conditions on a sequence of entries
NonTouching(es) == \A i \in 1..(Len(es) - 1) : es[i].end + 1 < es[i + 1].start
AllValid(es) == \A i \in 1..Len(es) : es[i].start <= es[i].end
Ascending(es) == \A i \in 1..(Len(es) - 1) : es[i].start < es[i + 1].start
Disjoint(es) == \A i \in 1..(Len(es) - 1) : es[i].end < es[i + 1].start

\* C1: after any sequence of insert calls from the empty set, no two adjacent
\* entries touch: entries[i].end + 1 < entries[i+1].start for every i.
C1_NoTouchingAfterInserts == NonTouching(entries(Self))

\* C2: after any sequence of insert and remove calls, whatever they return,
\* every entry has start <= end, the entries are strictly ascending by start,
\* no two entries share a point, and in_use <= N.
C2_WellFormed ==
    /\ in_use = Len(ranges)
    /\ AllValid(entries(Self))
    /\ Ascending(entries(Self))
    /\ Disjoint(entries(Self))
    /\ in_use <= N

\* A failed insert that had already merged entries away
C2_Witness ==
    /\ op = "insert" /\ ~res.ok /\ at = "eend"
    /\ entries(Self) # pre
    /\ in_use >= 1

\* C3: when insert(r) returns Ok, the points covered afterwards are exactly the
\* points covered before united with the points of r, and exactly one entry
\* contains all of r.
C3_InsertCoversUnion ==
    (op = "insert" /\ res.ok) =>
        /\ Points(entries(Self)) = Points(pre) \cup PointsOf(arg)
        /\ Cardinality({i \in 1..in_use : Within(arg, ranges[i])}) = 1

\* An insert that bridged two entries of a three-entry set
C3_Witness ==
    /\ op = "insert" /\ res.ok
    /\ Len(pre) = 3 /\ in_use = 2
    /\ arg \notin {pre[i] : i \in 1..Len(pre)}

\* C4: when remove(r) returns Ok, the points covered afterwards are exactly the
\* points covered before minus the points of r; an entry inside r is deleted,
\* an entry overlapping r at one edge is trimmed, and an entry with r strictly
\* inside it is replaced by [entry.start, r.start-1] and [r.end+1, entry.end].
C4_RemoveCoversDifference ==
    (op = "remove" /\ res.ok) =>
        /\ Points(entries(Self)) = Points(pre) \ PointsOf(arg)
        /\ \A i \in 1..Len(pre) :
              LET e == pre[i]
                  \* number of result entries that come from the entries before e
                  k == Cardinality({j \in 1..(i - 1) : ~Within(pre[j], arg)})
                       + Cardinality({j \in 1..(i - 1) : StrictlyInside(arg, pre[j])})
              IN /\ ~SharePoint(e, arg) => ranges[k + 1] = e
                 /\ StrictlyInside(arg, e) =>
                       /\ ranges[k + 1] = [start |-> e.start, end |-> arg.start - 1]
                       /\ ranges[k + 2] = [start |-> arg.end + 1, end |-> e.end]
                 /\ (SharePoint(e, arg) /\ ~Within(e, arg) /\ arg.start <= e.start) =>
                       ranges[k + 1] = [start |-> arg.end + 1, end |-> e.end]
                 /\ (SharePoint(e, arg) /\ ~Within(e, arg) /\ arg.end >= e.end) =>
                       ranges[k + 1] = [start |-> e.start, end |-> arg.start - 1]
        /\ in_use = Cardinality({j \in 1..Len(pre) : ~Within(pre[j], arg)})
                    + Cardinality({j \in 1..Len(pre) : StrictlyInside(arg, pre[j])})

\* A remove that split an entry in two, with another entry after it
C4_Witness ==
    /\ op = "remove" /\ res.ok
    /\ Len(pre) = 2 /\ in_use = 3
    /\ StrictlyInside(arg, pre[1])

C6_CapacityFailureUnmutated ==
    (op = "insert" /\ ~res.ok /\ at = "capacity") =>
        /\ res.err = "RangeSetOverflow"
        /\ entries(Self) = pre
        /\ in_use = Len(pre)

\* An insert into a full set of capacity at least 2
C6_Witness ==
    /\ op = "insert" /\ ~res.ok /\ at = "capacity"
    /\ N >= 2 /\ Len(pre) = N

\* r lies entirely inside one entry of es
InsideOneEntry(es, r) == \E i \in 1..Len(es) : Within(r, es[i])

\* C7: if r lies inside one entry, remove(r) returns Ok and the following
\* insert(r) returns Ok, the entries are again those before the remove.
C7_RemoveInsertRoundTrip ==
    [][(/\ op = "remove" /\ res.ok
        /\ InsideOneEntry(pre, arg)
        /\ op' = "insert" /\ arg' = arg /\ res'.ok)
       => entries(Self)' = pre]_vars

\* C8: from the empty set with N >= 1, insert(r) followed by insert(r) leaves
\* exactly the one entry r, also when r.end is the maximum value.
C8_InsertTwice ==
    [][(/\ op = "insert" /\ pre = <<>> /\ N >= 1
        /\ op' = "insert" /\ arg' = arg)
       => (entries(Self)' = <<arg>> /\ in_use' = 1)]_vars

\* The second insert of a range ending at the maximum value
C8_Witness ==
    /\ op = "insert" /\ pre = <<arg>> /\ entries(Self) = <<arg>>
    /\ arg.end = UsizeMax
    /\ ~res.ok

\* C9: len() returns Some(k), k the number of points covered, when k fits
\* usize, and None exactly when it does not; the running sum never overflows.
C9_LenCountsPoints ==
    op = "len" =>
        /\ res.ok
        /\ res.val = IF Covered(entries(Self)) > UsizeMax
                     THEN None ELSE Some(Covered(entries(Self)))

\* C10: insert(r), whatever it returns, never decreases the number of points
\* covered.
C10_InsertNeverShrinks ==
    op = "insert" => Covered(entries(Self)) >= Covered(pre)

\* C11: a.overlaps(b) is Some exactly when a and b share a point; the result is
\* then [max(a.start,b.start), min(a.end,b.end)], a valid range contained in
\* both a and b, and a.overlaps(b) = b.overlaps(a).
C11_OverlapsIsIntersection ==
    op = "overlaps" =>
        /\ (res.val # <<>>) <=> SharePoint(arg, other)
        /\ (res.val # <<>>) <=> (arg.start <= other.end /\ other.start <= arg.end)
        /\ res.val # <<>> =>
              LET r == res.val[1]
              IN /\ Len(res.val) = 1
                 /\ r.start = (IF arg.start >= other.start THEN arg.start ELSE other.start)
                 /\ r.end = (IF arg.end <= other.end THEN arg.end ELSE other.end)
                 /\ r.start <= r.end
                 /\ Within(r, arg) /\ Within(r, other)
                 /\ PointsOf(r) = PointsOf(arg) \cap PointsOf(other)
        /\ res.val = overlaps(other, arg)

\* Two ranges that share exactly their end points
C11_Witness ==
    /\ op = "overlaps" /\ res.val # <<>>
    /\ arg.end = other.start /\ arg.start < arg.end /\ other.start < other.end

\* C12: insert can fail late with partial mutation.  Whenever a failed insert
\* has changed the entries, the failure is the RangeSetOverflow of the
\* entry.end + 1 check on an entry ending at the maximum value, entries merged
\* earlier in the call are gone, and points covered before are covered no more.
C12_LateFailureLosesEntries ==
    (op = "insert" /\ ~res.ok /\ entries(Self) # pre) =>
        /\ res.err = "RangeSetOverflow" /\ at = "eend"
        /\ in_use >= 1 /\ ranges[in_use].end = UsizeMax
        /\ in_use < Len(pre)
        /\ Points(entries(Self)) \subseteq Points(pre)
        /\ Points(entries(Self)) # Points(pre)

\* A failed insert after which two entries merged earlier are gone
C12_Witness ==
    /\ op = "insert" /\ ~res.ok /\ res.err = "RangeSetOverflow" /\ at = "eend"
    /\ Len(pre) = 3 /\ in_use = 1
    /\ Covered(entries(Self)) < Covered(pre)

\* C13: remove(r) returns an error only when r lies strictly inside one entry
\* while in_use = N; the error is RangeSetOverflow and the entries and in_use
\* are those before the call.
C13_RemoveFailsOnlyOnFullSplit ==
    (op = "remove" /\ ~res.ok) =>
        /\ res.err = "RangeSetOverflow"
        /\ \E i \in 1..Len(pre) : StrictlyInside(arg, pre[i])
        /\ Len(pre) = N
        /\ entries(Self) = pre /\ in_use = Len(pre)

\* A failed remove on a full set of two entries
C13_Witness ==
    /\ op = "remove" /\ ~res.ok
    /\ N = 2 /\ Len(pre) = 2
    /\ StrictlyInside(arg, pre[2])

\* The four structural invariants of a set of capacity n
FourInvariants(es, n) ==
    /\ Ascending(es)
    /\ Disjoint(es)
    /\ NonTouching(es)
    /\ Len(es) <= n

\* C14: on a set that satisfies the four invariants, delete(index) and
\* split_entry(index, range) leave, whatever they return, a set that satisfies
\* the four invariants.
C14_HelpersKeepInvariants ==
    (op \in {"delete", "split_entry"} /\ FourInvariants(pre, N)) =>
        (in_use = Len(ranges) /\ FourInvariants(entries(Self), N))

\* es without its slot i (0-based)
Without(es, i) == SubSeq(es, 1, i) \o SubSeq(es, i + 2, Len(es))

\* C15: delete(index) with index < in_use removes exactly the entry at index,
\* the later entries moving one slot left in order, and decrements in_use;
\* with index >= in_use it returns IndexOutOfBounds and changes nothing.
C15_DeleteRemovesOneEntry ==
    op = "delete" =>
        IF index < Len(pre)
        THEN /\ res.ok
             /\ entries(Self) = Without(pre, index)
             /\ in_use = Len(pre) - 1
        ELSE /\ ~res.ok /\ res.err = "IndexOutOfBounds"
             /\ entries(Self) = pre
             /\ in_use = Len(pre)

\* A delete of the first of three entries
C15_Witness ==
    /\ op = "delete" /\ res.ok
    /\ index = 0 /\ Len(pre) = 3 /\ in_use = 2

\* C16: split_entry(index, range) with index < in_use = N returns
\* RangeSetOverflow, with index >= in_use IndexOutOfBounds, and in both cases
\* leaves the entries and in_use unchanged.
C16_SplitEntryRejects ==
    (op = "split_entry" /\ (index >= Len(pre) \/ Len(pre) = N)) =>
        /\ ~res.ok
        /\ res.err = (IF index >= Len(pre) THEN "IndexOutOfBounds" ELSE "RangeSetOverflow")
        /\ entries(Self) = pre
        /\ in_use = Len(pre)

\* split_entry on a full set of two entries with a range strictly inside the first
C16_Witness ==
    /\ op = "split_entry" /\ ~res.ok /\ res.err = "RangeSetOverflow"
    /\ N = 2 /\ Len(pre) = 2 /\ index = 0
    /\ StrictlyInside(arg, pre[1])

\* C17: split_entry(index, range) with index < in_use < N and range strictly
\* inside the entry returns Ok(true) and replaces the entry by
\* [entry.start, range.start - 1] and [range.end + 1, entry.end], the other
\* entries keeping their order; when the entry does not contain range it
\* returns Ok(false) and changes nothing.
C17_SplitEntrySplits ==
    (op = "split_entry" /\ index < Len(pre) /\ Len(pre) < N) =>
        LET e == pre[index + 1]
        IN /\ StrictlyInside(arg, e) =>
                /\ res.ok /\ res.val = TRUE
                /\ entries(Self) =
                      SubSeq(pre, 1, index)
                      \o << [start |-> e.start, end |-> arg.start - 1],
                            [start |-> arg.end + 1, end |-> e.end] >>
                      \o SubSeq(pre, index + 2, Len(pre))
                /\ in_use = Len(pre) + 1
           /\ ~Within(arg, e) =>
                /\ res.ok /\ res.val = FALSE
                /\ entries(Self) = pre
                /\ in_use = Len(pre)

\* A split of the first of two entries
C17_Witness ==
    /\ op = "split_entry" /\ res.ok /\ res.val = TRUE
    /\ index = 0 /\ Len(pre) = 2 /\ in_use = 3
    /\ StrictlyInside(arg, pre[1])

\* C18: if insert(r) returns Ok, an immediately repeated insert(r) returns Ok
\* and leaves the entries and in_use unchanged.
C18_InsertIdempotent ==
    [][(/\ op = "insert" /\ res.ok
        /\ op' = "insert" /\ arg' = arg)
       => (res'.ok /\ entries(Self)' = entries(Self) /\ in_use' = in_use)]_vars

\* C19: if the entries before remove(r) are sorted, disjoint and non-touching,
\* then after it, whatever it returns, they are sorted, disjoint and
\* non-touching, and every entry has start <= end.
C19_RemoveKeepsNonTouching ==
    (op = "remove" /\ Ascending(pre) /\ Disjoint(pre) /\ NonTouching(pre)) =>
        /\ Ascending(entries(Self))
        /\ Disjoint(entries(Self))
        /\ NonTouching(entries(Self))
        /\ AllValid(entries(Self))

\* A remove of one point that split an entry of a non-touching set
C19_Witness ==
    /\ op = "remove" /\ res.ok /\ res.val
    /\ NonTouching(pre) /\ Len(pre) >= 1
    /\ in_use = Len(pre) + 1
    /\ arg.start = arg.end

\* The set as it was before the last call
PreSelf == [ranges |-> pre, in_use |-> Len(pre), N |-> N]

\* An iteration advanced idx, deleted an entry, or added one and advanced by two
Progress(self, idx, self2, idx2) ==
    /\ \/ (idx2 = idx + 1 /\ self2.in_use = self.in_use)
       \/ (idx2 = idx /\ self2.in_use = self.in_use - 1)
       \/ (idx2 = idx + 2 /\ self2.in_use = self.in_use + 1)
    /\ self2.in_use - idx2 < self.in_use - idx

\* Every iteration of insert's scan from (self, range, idx) makes progress
RECURSIVE InsertProgresses(_, _, _)
InsertProgresses(self, range, idx) ==
    IF ~(idx < self.in_use) THEN TRUE
    ELSE LET st == insert_step(self, range, idx)
         IN IF st.kind \in {"err", "break"} THEN TRUE
            ELSE /\ Progress(self, idx, st.self, st.idx)
                 /\ InsertProgresses(st.self, st.range, st.idx)

\* Every iteration of remove's scan from (self, range, idx) makes progress
RECURSIVE RemoveProgresses(_, _, _, _)
RemoveProgresses(self, range, idx, any_removed) ==
    IF ~(idx < self.in_use) THEN TRUE
    ELSE LET st == remove_step(self, range, idx, any_removed)
         IN IF st.err # "" THEN TRUE
            ELSE /\ Progress(self, idx, st.self, st.idx)
                 /\ RemoveProgresses(st.self, range, st.idx, st.any_removed)

\* C20: every call of insert and of remove terminates: each iteration of the
\* scan advances idx, deletes an entry, or (on a split) adds one entry and
\* advances idx by two, so in_use - idx strictly decreases, and the body runs
\* at most as often as there were entries when the call was made.
C20_ScanTerminates ==
    /\ op = "insert" => (InsertProgresses(PreSelf, arg, 0) /\ iters <= Len(pre))
    /\ op = "remove" => (RemoveProgresses(PreSelf, arg, 0, FALSE) /\ iters <= Len(pre))

\* An insert whose scan ran three times, merging all three entries
C20_Witness ==
    /\ op = "insert" /\ res.ok
    /\ Len(pre) = 3 /\ in_use = 1 /\ iters = 3

====
